---------------------------- MODULE Spec2Model ----------------------------
(***************************************************************************)
(* Traffic analytics of app/ml.py: generate_forecast, generate_summary,    *)
(* detect_anomalies and detect_bots, each fetching its rows through a      *)
(* database connection that is closed in a finally block.                  *)
(*                                                                         *)
(* Numbers.  Visit counts, ordinals and sums are integers.  Every float of *)
(* the code is a ratio of such integers, kept here as an exact fraction    *)
(* [num, den] with den > 0; round(x, k) yields an integer count of 10^-k   *)
(* units (slope 50 is 0.50, growth -667 is -66.7).  ua_score is held in    *)
(* tenths, request_rate in units of 1/D per second, D the least common     *)
(* multiple of the durations of the table.                                 *)
(*                                                                         *)
(* A pandas Timestamp of a date-only column is held as its proleptic       *)
(* Gregorian ordinal; a date string 'YYYY-MM-DD' as the triple <<y, m, d>>.*)
(***************************************************************************)
EXTENDS Integers, Sequences, FiniteSets

VARIABLES
    daily_stats,       \* table daily_stats, rows in ORDER BY date ASC
    visitor_activity,  \* table visitor_activity
    pc,                \* position of the running operation
    call,              \* the running (or last) call: [op, days]
    conn,              \* the connection of that call: [state, closes]
    exc,               \* TRUE while an exception of read_sql_query propagates
    df,                \* the DataFrame the query returned
    result,            \* the value the last call returned
    outcome,           \* how the last call ended
    fitted,            \* whether the running call fitted an IsolationForest
    forest,            \* what IsolationForest answered, per generator state and X
    np_random,         \* position of numpy's global random generator
    recording,         \* whether seen is kept
    seen               \* history: first result of detect_anomalies / detect_bots

vars == <<daily_stats, visitor_activity, pc, call, conn, exc, df, result,
          outcome, fitted, forest, np_random, recording, seen>>

----------------------------------------------------------------------------
(* Bounds of the explored inputs.                                          *)

MaxDays == 2          \* forecast horizons 1..MaxDays
MaxGap == 3           \* days between consecutive forecast rows: 1..MaxGap
MaxVisits == 3        \* total_visits of a forecast row: 0..MaxVisits
MaxForecastRows == 4  \* forecast tables hold 2..MaxForecastRows rows
MaxDailyRows == 5     \* anomaly tables hold 0..MaxDailyRows rows
MaxBaseVisits == 1    \* summary tables: every day has 0..MaxBaseVisits visits,
MaxExtraVisits == 2   \* and one day may have 1..MaxExtraVisits more
MaxOutliers == 1      \* sessions that differ from the typical session
RngPeriod == 3        \* positions of the global generator that are told apart

----------------------------------------------------------------------------
(* Arithmetic helpers.                                                     *)

RECURSIVE SumSeq(_)
SumSeq(s) == IF s = <<>> THEN 0 ELSE Head(s) + SumSeq(Tail(s))

Column(rows, name) == [i \in 1..Len(rows) |-> rows[i][name]]

\* round half to even of p / q, q > 0 (numpy's rint on the scaled value)
RoundHalfEven(p, q) ==
    LET f == p \div q
        r == p - f * q
    IN  IF 2 * r < q THEN f
        ELSE IF 2 * r > q THEN f + 1
        ELSE IF f % 2 = 0 THEN f ELSE f + 1

\* round(x, k) of the fraction x, in units of 10^-k (scale = 10^k)
Round(x, scale) == RoundHalfEven(scale * x.num, x.den)

\* int(x) alone: truncation toward zero, negative values kept
IntMaxZeroUnclamped(x) ==
    IF x.num >= 0 THEN x.num \div x.den ELSE -((-x.num) \div x.den)

\* int(max(0, x)) of the fraction x: clamp, then truncate toward zero
IntMaxZero(x) == IF x.num <= 0 THEN 0 ELSE x.num \div x.den

----------------------------------------------------------------------------
(* Calendar: datetime.toordinal, Timestamp.strftime("%Y-%m-%d").           *)

DAYS_IN_MONTH == <<31, 28, 31, 30, 31, 30, 31, 31, 30, 31, 30, 31>>
DAYS_BEFORE_MONTH == <<0, 31, 59, 90, 120, 151, 181, 212, 243, 273, 304, 334>>

is_leap(y) == y % 4 = 0 /\ (y % 100 # 0 \/ y % 400 = 0)

days_before_year(y) ==
    (y - 1) * 365 + (y - 1) \div 4 - (y - 1) \div 100 + (y - 1) \div 400

days_before_month(y, m) ==
    DAYS_BEFORE_MONTH[m] + (IF m > 2 /\ is_leap(y) THEN 1 ELSE 0)

\* pd.to_datetime of a 'YYYY-MM-DD' string, as the ordinal of the day
to_datetime(ymd) ==
    days_before_year(ymd[1]) + days_before_month(ymd[1], ymd[2]) + ymd[3]

\* strftime("%Y-%m-%d") of the Timestamp with this ordinal
strftime(ordinal) ==
    LET n0 == ordinal - 1
        n400 == n0 \div 146097
        r400 == n0 % 146097
        n100 == r400 \div 36524
        r100 == r400 % 36524
        n4 == r100 \div 1461
        r4 == r100 % 1461
        n1 == r4 \div 365
        n == r4 % 365
        year == n400 * 400 + 1 + n100 * 100 + n4 * 4 + n1
        leapyear == n1 = 3 /\ (n4 # 24 \/ n100 = 3)
        month0 == (n + 50) \div 32
        preceding0 == DAYS_BEFORE_MONTH[month0]
                        + (IF month0 > 2 /\ leapyear THEN 1 ELSE 0)
        month == IF preceding0 > n THEN month0 - 1 ELSE month0
        preceding ==
            IF preceding0 > n
            THEN preceding0 - (DAYS_IN_MONTH[month]
                                 + (IF month = 2 /\ leapyear THEN 1 ELSE 0))
            ELSE preceding0
    IN  IF n1 = 4 \/ n100 = 4
        THEN <<year - 1, 12, 31>>
        ELSE <<year, month, n - preceding + 1>>

DAY_NAMES == <<"Monday", "Tuesday", "Wednesday", "Thursday", "Friday",
               "Saturday", "Sunday">>

\* Series.dt.day_name()
day_name(ordinal) == DAY_NAMES[((ordinal + 6) % 7) + 1]

----------------------------------------------------------------------------
(* sklearn.linear_model.LinearRegression on one feature.  fit centres X    *)
(* and y on their means and solves the least-squares problem; with         *)
(* u_i = n*x_i - sum(x) and w_i = n*y_i - sum(y) the coefficient is        *)
(* sum(u_i*w_i) / sum(u_i^2), and 0 when every x is the same (the          *)
(* minimum-norm solution); intercept_ = mean(y) - mean(x) * coef_.         *)

LinearRegression_fit(X, y) ==
    LET n == Len(X)
        sx == SumSeq(X)
        sy == SumSeq(y)
        sxy == SumSeq([i \in 1..n |-> (n * X[i] - sx) * (n * y[i] - sy)])
        sxx == SumSeq([i \in 1..n |-> (n * X[i] - sx) * (n * X[i] - sx)])
    IN  [coef |-> IF sxx = 0 THEN [num |-> 0, den |-> 1]
                  ELSE [num |-> sxy, den |-> sxx],
         n |-> n, sum_x |-> sx, sum_y |-> sy]

\* x * coef_ + intercept_ = mean(y) + coef_ * (x - mean(x))
LinearRegression_predict(model, x) ==
    [num |-> model.sum_y * model.coef.den
               + model.coef.num * (model.n * x - model.sum_x),
     den |-> model.n * model.coef.den]

----------------------------------------------------------------------------
(* generate_forecast, after the fetch.                                     *)

MinForecastRows == 3

SeqMax(s) == CHOOSE m \in {s[i] : i \in 1..Len(s)} :
                 \A i \in 1..Len(s) : s[i] <= m

TrendInclusive(slope) ==
    IF 2 * slope.num >= slope.den THEN "increasing"
    ELSE IF 2 * slope.num <= -slope.den THEN "decreasing"
    ELSE "stable"

\* slope > 0.5: increasing; slope < -0.5: decreasing; else stable
Trend(slope) ==
    IF 2 * slope.num > slope.den THEN "increasing"
    ELSE IF 2 * slope.num < -slope.den THEN "decreasing"
    ELSE "stable"

FuturePointUnclamped(model, date) ==
    [date |-> strftime(date),
     predicted_visits |-> IntMaxZeroUnclamped(LinearRegression_predict(model, date))]

\* one entry of forecast: the date formatted, the prediction clamped and cut
FuturePoint(model, date) ==
    [date |-> strftime(date),
     predicted_visits |-> IntMaxZero(LinearRegression_predict(model, date))]

\* last_date + timedelta(days=i) for i in range(1, days + 1)
FutureDates(frame, days) ==
    [i \in 1..days |-> SeqMax(Column(frame, "date")) + i]

DayIndex(frame) == [i \in 1..Len(frame) |-> frame[1].date + i - 1]

\* df['day_ordinal'] = df['date'].map(datetime.toordinal)
day_ordinal(frame) == Column(frame, "date")

\* if len(df) < 3: return the message
TooFewForecastRows(frame) == Len(frame) < MinForecastRows

generate_forecast_body(frame, days) ==
    IF TooFewForecastRows(frame)
    THEN [can_forecast |-> FALSE,
          message |-> "Not enough data. Need at least 3 days of history."]
    ELSE LET model == LinearRegression_fit(day_ordinal(frame),
                                           Column(frame, "total_visits"))
             future_dates == FutureDates(frame, days)
         IN  [can_forecast |-> TRUE,
              forecast |-> [i \in 1..days |-> FuturePoint(model, future_dates[i])],
              trend |-> Trend(model.coef),
              slope |-> Round(model.coef, 100)]

----------------------------------------------------------------------------
(* generate_summary, after the fetch.                                      *)

\* the group keys of groupby('day_name'), which sorts them
SORTED_DAY_NAMES == <<"Friday", "Monday", "Saturday", "Sunday", "Thursday",
                      "Tuesday", "Wednesday">>

GroupRows(frame, name) ==
    SelectSeq(frame, LAMBDA r : day_name(r.date) = name)

\* mean of total_visits of one weekday, as a fraction
GroupMean(frame, name) ==
    LET g == GroupRows(frame, name)
    IN  [num |-> SumSeq(Column(g, "total_visits")), den |-> Len(g)]

FracLess(a, b) == a.num * b.den < b.num * a.den

\* groupby('day_name')['total_visits'].mean().idxmax(): first maximum in key order
busiest_day_of_week(frame) ==
    LET present == SelectSeq(SORTED_DAY_NAMES,
                             LAMBDA d : GroupRows(frame, d) # <<>>)
        k == CHOOSE i \in 1..Len(present) :
                 /\ \A j \in 1..Len(present) :
                        ~FracLess(GroupMean(frame, present[i]),
                                  GroupMean(frame, present[j]))
                 /\ \A j \in 1..(i - 1) :
                        FracLess(GroupMean(frame, present[j]),
                                 GroupMean(frame, present[i]))
    IN  present[k]

WeekRows == 7

Tail7(frame) == SubSeq(frame, Len(frame) - WeekRows + 1, Len(frame))
Prev7(frame) == SubSeq(frame, Len(frame) - 2 * WeekRows + 1, Len(frame) - WeekRows)

GrowthRateUnguarded(current, previous) ==
    IF previous # 0
    THEN Round([num |-> 100 * (current - previous), den |-> previous], 10)
    ELSE 1000 * current

\* round(growth_rate, 1), in tenths of a percent
GrowthRate(current, previous) ==
    IF previous > 0
    THEN Round([num |-> 100 * (current - previous), den |-> previous], 10)
    ELSE 0

weekly_growth(frame) ==
    IF Len(frame) >= 2 * WeekRows
    THEN LET current_week_visits == SumSeq(Column(Tail7(frame), "total_visits"))
             previous_week_visits == SumSeq(Column(Prev7(frame), "total_visits"))
         IN  [current_week_visits |-> current_week_visits,
              previous_week_visits |-> previous_week_visits,
              growth_rate_percent |->
                  GrowthRate(current_week_visits, previous_week_visits)]
    ELSE [current_week_visits |-> 0, previous_week_visits |-> 0,
          growth_rate_percent |-> 0]

generate_summary_body(frame) ==
    IF frame = <<>>
    THEN [error |-> "No data available"]
    ELSE [average_daily_visits |->
              Round([num |-> SumSeq(Column(frame, "total_visits")),
                     den |-> Len(frame)], 10),
          average_daily_unique |->
              Round([num |-> SumSeq(Column(frame, "unique_visitors")),
                     den |-> Len(frame)], 10),
          busiest_day_of_week |-> busiest_day_of_week(frame),
          weekly_growth |-> weekly_growth(frame)]

----------------------------------------------------------------------------
(* sklearn.ensemble.IsolationForest.  fit_predict labels each row -1       *)
(* (outlier) or 1; the labels are a function of the generator the forest   *)
(* draws from and of X, and rows with equal features get equal labels.     *)
(* Which rows it flags is left open: forest records the answer the first   *)
(* time a generator state and X are met, and the same answer is given      *)
(* whenever they are met again.  With random_state an integer the forest   *)
(* draws from a fresh generator seeded with it; with random_state None it  *)
(* draws from numpy's global generator, which it advances.                 *)

SEED == 42

IsolationForestUnseeded(contamination) ==
    [contamination |-> contamination, seeded |-> FALSE, random_state |-> 0]

\* IsolationForest(contamination=..., random_state=42)
IsolationForest(contamination) ==
    [contamination |-> contamination, seeded |-> TRUE, random_state |-> SEED]

AUTO == [auto |-> TRUE, percent |-> 0]     \* contamination='auto'
TOP5 == [auto |-> FALSE, percent |-> 5]    \* contamination=0.05

\* check_random_state(random_state): the generator the trees draw from
check_random_state(iso) ==
    IF iso.seeded
    THEN [global |-> FALSE, seed |-> iso.random_state, position |-> 0]
    ELSE [global |-> TRUE, seed |-> 0, position |-> np_random]

\* rows strictly below the percentile of the scores that is the offset:
\* at most ceil(percent * (n - 1) / 100) of them
MaxFlagged(percent, n) == (percent * (n - 1) + 99) \div 100

\* the sets of rows a forest can flag
Flaggable(contamination, X) ==
    LET n == Len(X)
        classes == {{j \in 1..n : X[j] = X[i]} : i \in 1..n}
        unions == {UNION c : c \in SUBSET classes}
    IN  IF contamination.auto THEN unions
        ELSE {u \in unions :
                  Cardinality(u) <= MaxFlagged(contamination.percent, n)}

Labels(flagged, n) == [i \in 1..n |-> IF i \in flagged THEN -1 ELSE 1]

ForestKey(iso, X) ==
    [generator |-> check_random_state(iso),
     contamination |-> iso.contamination, X |-> X]

\* the label vectors fit_predict(X) can return in this state
fit_predict(iso, X) ==
    IF \E e \in forest : e.key = ForestKey(iso, X)
    THEN {e.labels : e \in {d \in forest : d.key = ForestKey(iso, X)}}
    ELSE {Labels(f, Len(X)) : f \in Flaggable(iso.contamination, X)}

----------------------------------------------------------------------------
(* detect_anomalies, after the fetch.                                      *)

MinAnomalyRows == 5

AnomalyTypeInclusive(visit_count, frame) ==
    IF visit_count * Len(frame) >= SumSeq(Column(frame, "total_visits"))
    THEN "spike" ELSE "dip"

\* "spike" if visit_count > mean_visits else "dip"
AnomalyType(visit_count, frame) ==
    IF visit_count * Len(frame) > SumSeq(Column(frame, "total_visits"))
    THEN "spike" ELSE "dip"

WithLabel(frame, labels) ==
    [i \in 1..Len(frame) |->
        [row |-> frame[i], label |-> labels[i], index |-> i]]

\* df[df['anomaly'] == -1]
FlaggedRows(frame, labels) ==
    SelectSeq(WithLabel(frame, labels), LAMBDA r : r.label = -1)

anomaly_features(frame) == [i \in 1..Len(frame) |-> <<frame[i].total_visits>>]

NeedsMoreThanFiveRows(frame) == Len(frame) <= MinAnomalyRows

\* if len(df) < 5: return the message
TooFewAnomalyRows(frame) == Len(frame) < MinAnomalyRows

detect_anomalies_body(frame, labels) ==
    IF TooFewAnomalyRows(frame)
    THEN [has_anomalies |-> FALSE,
          message |-> "Not enough data. Need at least 5 days of history."]
    ELSE LET anomalies == FlaggedRows(frame, labels)
             results ==
                 [i \in 1..Len(anomalies) |->
                     [date |-> strftime(anomalies[i].row.date),
                      visits |-> anomalies[i].row.total_visits,
                      type |-> AnomalyType(anomalies[i].row.total_visits, frame)]]
         IN  [has_anomalies |-> Len(results) > 0, anomalies |-> results]

----------------------------------------------------------------------------
(* detect_bots, after the fetch.                                           *)

MinBotRows == 10
SECONDS_PER_DAY == 86400

RECURSIVE Gcd(_, _)
Gcd(a, b) == IF b = 0 THEN a ELSE Gcd(b, a % b)

RECURSIVE Lcm(_)
Lcm(s) == IF s = <<>> THEN 1
          ELSE LET l == Lcm(Tail(s)) IN (Head(s) * l) \div Gcd(Head(s), l)

\* pd.to_datetime of a 'YYYY-MM-DD HH:MM:SS' string: day ordinal and second
to_timestamp(t) == [day |-> to_datetime(t.date), second |-> t.second]

\* (last_seen - first_seen).dt.total_seconds()
total_seconds(last, first) ==
    (last.day - first.day) * SECONDS_PER_DAY + (last.second - first.second)

DurationRaw(row) ==
    total_seconds(to_timestamp(row.last_seen), to_timestamp(row.first_seen))

\* df['duration'].replace(0, 1)
Duration(row) ==
    IF DurationRaw(row) = 0 THEN 1 ELSE DurationRaw(row)

\* request_count / duration of every row over the common denominator of the
\* table: request_rate[i] is the rate of row i times Lcm(durations)
request_rate(frame) ==
    LET durations == [i \in 1..Len(frame) |-> Duration(frame[i])]
        D == Lcm(durations)
    IN  [i \in 1..Len(frame) |-> frame[i].request_count * (D \div durations[i])]

\* fillna(0) of ua_score
fillna(ua_score) == IF ua_score.null THEN 0 ELSE ua_score.tenths

\* df[['request_count', 'request_rate', 'ua_score']].fillna(0)
bot_features(frame) ==
    LET rate == request_rate(frame)
    IN  [i \in 1..Len(frame) |->
            <<frame[i].request_count, rate[i], fillna(frame[i].ua_score)>>]

UA_THRESHOLD == 8   \* 0.8, in tenths

HighVolume(i, frame) ==
    frame[i].request_count * Len(frame)
        > 2 * SumSeq(Column(frame, "request_count"))

HighRate(i, frame) ==
    request_rate(frame)[i] * Len(frame) > 2 * SumSeq(request_rate(frame))

\* NaN > 0.8 is False
SuspiciousAgent(i, frame) ==
    ~frame[i].ua_score.null /\ frame[i].ua_score.tenths > UA_THRESHOLD

ReasonsAlwaysUnusual(i, frame) ==
    (IF HighVolume(i, frame) THEN <<"High Request Volume">> ELSE <<>>)
    \o (IF HighRate(i, frame) THEN <<"Abnormal Request Rate">> ELSE <<>>)
    \o (IF SuspiciousAgent(i, frame) THEN <<"Suspicious User Agent">> ELSE <<>>)
    \o <<"Unusual Pattern">>

\* the list reason of one flagged row
Reasons(i, frame) ==
    LET reason ==
            (IF HighVolume(i, frame) THEN <<"High Request Volume">> ELSE <<>>)
            \o (IF HighRate(i, frame) THEN <<"Abnormal Request Rate">> ELSE <<>>)
            \o (IF SuspiciousAgent(i, frame)
                THEN <<"Suspicious User Agent">> ELSE <<>>)
    IN  IF reason = <<>> THEN <<"Unusual Pattern">> ELSE reason

\* sep.join(parts), as the pieces of the resulting string
RECURSIVE Join(_, _)
Join(parts, sep) ==
    IF Len(parts) <= 1 THEN parts
    ELSE <<Head(parts), sep>> \o Join(Tail(parts), sep)

\* if len(df) < 10: return the message
TooFewBotRows(frame) == Len(frame) < MinBotRows

detect_bots_body(frame, labels) ==
    IF TooFewBotRows(frame)
    THEN [message |-> "Not enough data for bot detection (need > 10 visitors)"]
    ELSE LET bots == FlaggedRows(frame, labels)
             results ==
                 [i \in 1..Len(bots) |->
                     [ip_hash |-> bots[i].row.ip_hash,
                      request_count |-> bots[i].row.request_count,
                      reason |-> Join(Reasons(bots[i].index, frame), ", ")]]
         IN  [detected_bots_count |-> Len(results), bots |-> results]

----------------------------------------------------------------------------
(* The tables the operations are run on.  A table is fixed for the length  *)
(* of a run: nothing in ml.py writes to it.                                *)

\* rows of daily_stats from their ordinals and visit counts
DailyRows(ordinals, visits) ==
    [i \in 1..Len(ordinals) |->
        [date |-> strftime(ordinals[i]),
         total_visits |-> visits[i],
         unique_visitors |-> (visits[i] + 1) \div 2]]

RECURSIVE Ordinals(_, _)
Ordinals(first, gaps) ==
    IF gaps = <<>> THEN <<first>>
    ELSE <<first>> \o Ordinals(first + Head(gaps), Tail(gaps))

ForecastStart == <<2024, 2, 20>>

\* forecast tables: few rows, gaps between the days, every visit count
ForecastTables ==
    UNION {
        {DailyRows(Ordinals(to_datetime(ForecastStart), gaps), visits) :
            gaps \in [1..(n - 1) -> 1..MaxGap],
            visits \in [1..n -> 0..MaxVisits]} :
        n \in (MinForecastRows - 1)..MaxForecastRows}

DailyStart == <<2023, 12, 29>>
VisitLevels == {1, 5, 9}

\* anomaly tables: consecutive days, up to MaxDailyRows rows
DailyTables ==
    UNION {
        {DailyRows([i \in 1..n |-> to_datetime(DailyStart) + i - 1], visits) :
            visits \in [1..n -> VisitLevels]} :
        n \in 0..MaxDailyRows}

SummaryRowCounts == {0, 1, 2 * WeekRows - 1, 2 * WeekRows, 2 * WeekRows + 1}

\* summary tables: consecutive days with the same visits, but for one day
SummaryTables ==
    UNION {
        {DailyRows([i \in 1..n |-> to_datetime(DailyStart) + i - 1],
                   [i \in 1..n |-> IF i = day THEN base + extra ELSE base]) :
            base \in 0..MaxBaseVisits, day \in 0..n, extra \in 1..MaxExtraVisits} :
        n \in SummaryRowCounts}

SessionStart == [date |-> <<2024, 2, 29>>, second |-> 86390]

\* the timestamp d seconds after t
Later(t, d) ==
    LET s == t.second + d
    IN  [date |-> strftime(to_datetime(t.date) + s \div SECONDS_PER_DAY),
         second |-> s % SECONDS_PER_DAY]

Session(ip, request_count, duration, ua_score) ==
    [ip_hash |-> ip, first_seen |-> SessionStart,
     last_seen |-> Later(SessionStart, duration),
     request_count |-> request_count, ua_score |-> ua_score]

Missing == [null |-> TRUE, tenths |-> 0]
Score(t) == [null |-> FALSE, tenths |-> t]

\* the typical session, and the sessions that differ from it
TypicalSession(ip) == Session(ip, 4, 8, Score(1))
OddKinds ==
    [request_count : {4, 9, 40}, duration : {0, 128},
     ua_score : {Missing, Score(8), Score(9)}]
OddSession(ip, kind) ==
    Session(ip, kind.request_count, kind.duration, kind.ua_score)

BotRowCounts == (MinBotRows - 1)..(MinBotRows + 1)

\* visitor tables: typical sessions followed by up to MaxOutliers odd ones
BotTables ==
    UNION {
        UNION {
            {[i \in 1..n |-> IF i <= n - k THEN TypicalSession(i)
                             ELSE OddSession(i, odd[i - (n - k)])] :
                odd \in [1..k -> OddKinds]} :
            k \in 0..MaxOutliers} :
        n \in BotRowCounts}

----------------------------------------------------------------------------
(* The operations.                                                         *)

Ops == {"generate_forecast", "generate_summary", "detect_anomalies",
        "detect_bots"}
DailyOps == {"generate_forecast", "generate_summary", "detect_anomalies"}
ForestOps == {"detect_anomalies", "detect_bots"}

NoResult == [none |-> TRUE]

InitWith(daily, visitors, rec) ==
    /\ daily_stats = daily
    /\ visitor_activity = visitors
    /\ pc = "idle"
    /\ call = [op |-> "none", days |-> 0]
    /\ conn = [state |-> "none", closes |-> 0, misused |-> FALSE]
    /\ exc = FALSE
    /\ df = <<>>
    /\ result = NoResult
    /\ outcome = "none"
    /\ fitted = FALSE
    /\ forest = {}
    /\ np_random = 0
    /\ recording = rec
    /\ seen = [o \in ForestOps |-> {}]

InitForecast == \E t \in ForecastTables : InitWith(t, <<>>, FALSE)
InitDaily == \E t \in DailyTables : InitWith(t, <<>>, FALSE)
InitSummary == \E t \in SummaryTables : InitWith(t, <<>>, FALSE)
InitBots == \E t \in BotTables : InitWith(<<>>, t, FALSE)
Init ==
    \/ \E t \in DailyTables : InitWith(t, <<>>, TRUE)
    \/ \E t \in BotTables : InitWith(<<>>, t, TRUE)

\* conn = get_db(site_id): the operation starts and holds an open connection
Call(op, days) ==
    /\ pc = "idle"
    /\ pc' = "query"
    /\ call' = [op |-> op, days |-> days]
    /\ conn' = [state |-> "open", closes |-> 0, misused |-> FALSE]
    /\ exc' = FALSE
    /\ df' = <<>>
    /\ result' = NoResult
    /\ outcome' = "running"
    /\ fitted' = FALSE
    /\ UNCHANGED <<daily_stats, visitor_activity, forest, np_random,
                   recording, seen>>

\* pd.read_sql_query(query, conn): the rows of the table, or an exception
ReadSql ==
    /\ pc = "query"
    /\ \E ok \in BOOLEAN :
        /\ df' = IF ~ok THEN <<>>
                 ELSE IF call.op = "detect_bots" THEN visitor_activity
                 ELSE daily_stats
        /\ exc' = ~ok
    /\ conn' = [conn EXCEPT !.misused = @ \/ conn.state # "open"]
    /\ pc' = "finally"
    /\ UNCHANGED <<daily_stats, visitor_activity, call, result, outcome,
                   fitted, forest, np_random, recording, seen>>

CloseOnSuccessOnly ==
    IF exc THEN conn
    ELSE [conn EXCEPT !.state = "closed", !.closes = @ + 1]

\* conn.close()
ConnClose == [conn EXCEPT !.state = "closed", !.closes = @ + 1]

\* finally: conn.close(); a pending exception then leaves the operation
Close ==
    /\ pc = "finally"
    /\ conn' = ConnClose
    /\ pc' = IF exc THEN "idle" ELSE "body"
    /\ outcome' = IF exc THEN "raised" ELSE outcome
    /\ UNCHANGED <<daily_stats, visitor_activity, call, exc, df, result,
                   fitted, forest, np_random, recording, seen>>

\* df['date'] = pd.to_datetime(df['date']) of get_daily_data
get_daily_data(rows) ==
    [i \in 1..Len(rows) |-> [rows[i] EXCEPT !.date = to_datetime(@)]]

\* the forest the running operation builds, and the features it fits it on
ForestOf(op) ==
    IF op = "detect_bots" THEN IsolationForest(TOP5) ELSE IsolationForest(AUTO)

FeaturesOf(op, frame) ==
    IF op = "detect_bots" THEN bot_features(frame) ELSE anomaly_features(frame)

\* whether the running operation gets as far as fit_predict
ReachesForest(op, frame) ==
    \/ op = "detect_anomalies" /\ ~TooFewAnomalyRows(frame)
    \/ op = "detect_bots" /\ ~TooFewBotRows(frame)

Body(op, days, frame, labels) ==
    CASE op = "generate_forecast" -> generate_forecast_body(frame, days)
      [] op = "generate_summary" -> generate_summary_body(frame)
      [] op = "detect_anomalies" -> detect_anomalies_body(frame, labels)
      [] op = "detect_bots" -> detect_bots_body(frame, labels)

\* history: the first result of an operation is kept, with the rows it was
\* computed from; again tells that the operation has returned once more
Remember(kept, rows, value) ==
    IF kept = {}
    THEN {[input |-> rows, result |-> value, again |-> FALSE]}
    ELSE {[h EXCEPT !.again = TRUE] : h \in kept}

\* the rest of the operation, up to its return
Return ==
    /\ pc = "body"
    /\ LET frame == IF call.op \in DailyOps THEN get_daily_data(df) ELSE df
           fits == ReachesForest(call.op, frame)
           iso == ForestOf(call.op)
           X == FeaturesOf(call.op, frame)
       IN  \E labels \in (IF fits THEN fit_predict(iso, X) ELSE {<<>>}) :
            /\ result' = Body(call.op, call.days, frame, labels)
            /\ fitted' = fits
            /\ forest' = IF fits
                         THEN forest \cup {[key |-> ForestKey(iso, X),
                                            labels |-> labels]}
                         ELSE forest
            /\ np_random' = IF fits /\ ~iso.seeded
                            THEN (np_random + 1) % RngPeriod
                            ELSE np_random
            /\ seen' = IF recording /\ call.op \in ForestOps
                       THEN [seen EXCEPT ![call.op] =
                                Remember(@, df,
                                         Body(call.op, call.days, frame, labels))]
                       ELSE seen
    /\ pc' = "idle"
    /\ outcome' = "returned"
    /\ UNCHANGED <<daily_stats, visitor_activity, call, conn, exc, df,
                   recording>>

Next ==
    \/ \E op \in Ops, days \in 1..MaxDays :
           Call(op, IF op = "generate_forecast" THEN days ELSE 0)
    \/ ReadSql
    \/ Close
    \/ Return

Spec == Init /\ [][Next]_vars
SpecForecast == InitForecast /\ [][Next]_vars
SpecDaily == InitDaily /\ [][Next]_vars
SpecSummary == InitSummary /\ [][Next]_vars
SpecBots == InitBots /\ [][Next]_vars

----------------------------------------------------------------------------
(* What the claims are stated with: the table read directly, and the       *)
(* arithmetic written out a second way.                                    *)

Returned(op) == pc = "idle" /\ outcome = "returned" /\ call.op = op

Visits(i) == daily_stats[i].total_visits
TotalVisits == SumSeq([i \in 1..Len(daily_stats) |-> Visits(i)])

\* days since the first row of daily_stats
DayOffset(i) == to_datetime(daily_stats[i].date) - to_datetime(daily_stats[1].date)

\* the least-squares slope of visits on the day, by the textbook formula
\* (n*Sum(t*y) - Sum(t)*Sum(y)) / (n*Sum(t*t) - Sum(t)^2)
OlsSlope ==
    LET n == Len(daily_stats)
        st == SumSeq([i \in 1..n |-> DayOffset(i)])
        stt == SumSeq([i \in 1..n |-> DayOffset(i) * DayOffset(i)])
        sty == SumSeq([i \in 1..n |-> DayOffset(i) * Visits(i)])
    IN  [num |-> n * sty - st * TotalVisits, den |-> n * stt - st * st]

\* the least-squares line at day offset t: mean(y) + slope * (t - mean(t))
OlsLine(t) ==
    LET n == Len(daily_stats)
        st == SumSeq([i \in 1..n |-> DayOffset(i)])
    IN  [num |-> TotalVisits * OlsSlope.den + OlsSlope.num * (n * t - st),
         den |-> n * OlsSlope.den]

\* v = floor(max(0, x)) for the fraction x, without dividing
IsClampedFloor(v, x) ==
    IF x.num <= 0 THEN v = 0
    ELSE v * x.den <= x.num /\ x.num < (v + 1) * x.den

\* h hundredths (t tenths, ...) is x rounded to the nearest 1/scale
IsNearest(h, x, scale) ==
    LET diff == h * x.den - scale * x.num
    IN  2 * diff <= x.den /\ 2 * diff >= -x.den

\* the calendar day after <<y, m, d>>
DayAfter(ymd) ==
    LET monthLen == IF ymd[2] = 2
                    THEN (IF is_leap(ymd[1]) THEN 29 ELSE 28)
                    ELSE IF ymd[2] \in {4, 6, 9, 11} THEN 30 ELSE 31
    IN  IF ymd[3] < monthLen THEN <<ymd[1], ymd[2], ymd[3] + 1>>
        ELSE IF ymd[2] < 12 THEN <<ymd[1], ymd[2] + 1, 1>>
        ELSE <<ymd[1] + 1, 1, 1>>

RECURSIVE DaysAfter(_, _)
DaysAfter(ymd, i) == IF i = 0 THEN ymd ELSE DaysAfter(DayAfter(ymd), i - 1)

LastDate == daily_stats[Len(daily_stats)].date
LastOffset == DayOffset(Len(daily_stats))

\* the rows labelled -1, in table order
RECURSIVE FlaggedFrom(_, _)
FlaggedFrom(labels, i) ==
    IF i > Len(labels) THEN <<>>
    ELSE (IF labels[i] = -1 THEN <<i>> ELSE <<>>) \o FlaggedFrom(labels, i + 1)

----------------------------------------------------------------------------
(* C1: detect_bots requires more than 10 rows: whenever it returns for a   *)
(* table of 10 or fewer rows, it returns only the message and has fitted   *)
(* no forest; only tables of 11 or more rows reach the forest.             *)
C1_MoreThanTenRows ==
    Returned("detect_bots") /\ Len(visitor_activity) <= 10
        => (DOMAIN result = {"message"} /\ ~fitted)

(* C2: threshold gating.  With 2 rows generate_forecast returns            *)
(* can_forecast false and its message, with 3 the full forecast; with 4    *)
(* rows detect_anomalies returns has_anomalies false and its message, with *)
(* 5 the anomalies of a fitted forest; with 0 rows generate_summary        *)
(* returns the error "No data available", with 1 the full summary.  No     *)
(* operation ends in a fault unless the query itself raised.               *)
C2_ThresholdGating ==
    /\ Returned("generate_forecast") /\ Len(daily_stats) = 2
        => result = [can_forecast |-> FALSE,
                     message |-> "Not enough data. Need at least 3 days of history."]
    /\ Returned("generate_forecast") /\ Len(daily_stats) = 3
        => /\ DOMAIN result = {"can_forecast", "forecast", "trend", "slope"}
           /\ result.can_forecast
           /\ Len(result.forecast) = call.days
    /\ Returned("detect_anomalies") /\ Len(daily_stats) = 4
        => /\ result = [has_anomalies |-> FALSE,
                        message |-> "Not enough data. Need at least 5 days of history."]
           /\ ~fitted
    /\ Returned("detect_anomalies") /\ Len(daily_stats) = 5
        => /\ DOMAIN result = {"has_anomalies", "anomalies"}
           /\ fitted
    /\ Returned("generate_summary") /\ Len(daily_stats) = 0
        => result = [error |-> "No data available"]
    /\ Returned("generate_summary") /\ Len(daily_stats) = 1
        => DOMAIN result = {"average_daily_visits", "average_daily_unique",
                            "busiest_day_of_week", "weekly_growth"}
    /\ pc = "idle" /\ outcome = "raised" => exc

\* detect_anomalies has returned the anomalies of exactly 5 rows
C2_Witness ==
    /\ Returned("detect_anomalies")
    /\ Len(daily_stats) = 5
    /\ "anomalies" \in DOMAIN result
    /\ fitted

(* C3: every operation releases the connection it acquired before it ends, *)
(* on every path: no connection is open once an operation has returned or  *)
(* raised, it has then been closed exactly once, it is closed before the   *)
(* rows are worked on, it is never closed twice and no query runs on a     *)
(* closed connection.                                                      *)
C3_ConnectionReleased ==
    /\ pc = "idle" => conn.state # "open"
    /\ pc = "idle" /\ outcome \in {"returned", "raised"}
        => conn.state = "closed" /\ conn.closes = 1
    /\ pc = "body" => conn.state = "closed"
    /\ conn.closes <= 1
    /\ ~conn.misused

\* an operation whose query raised has ended, its connection closed once
C3_Witness ==
    /\ pc = "idle"
    /\ outcome = "raised"
    /\ conn.state = "closed"
    /\ conn.closes = 1

(* C4: detect_anomalies on at least 5 rows lists exactly the rows the      *)
(* forest flagged, in table order, each with its date and visits, typed    *)
(* spike when its visits are strictly above the mean over all rows and dip *)
(* otherwise (also when equal to the mean); has_anomalies is true exactly  *)
(* when the list is not empty.                                             *)
C4_AnomaliesAreFlaggedRows ==
    Returned("detect_anomalies") /\ Len(daily_stats) >= 5
        => /\ forest # {}
           /\ \A e \in forest :
               LET idx == FlaggedFrom(e.labels, 1)
                   n == Len(daily_stats)
               IN  /\ Len(result.anomalies) = Len(idx)
                   /\ \A k \in 1..Len(idx) :
                        result.anomalies[k] =
                            [date |-> daily_stats[idx[k]].date,
                             visits |-> Visits(idx[k]),
                             type |-> IF Visits(idx[k]) * n > TotalVisits
                                      THEN "spike" ELSE "dip"]
                   /\ result.has_anomalies <=> result.anomalies # <<>>

\* some but not all rows are flagged, one of them exactly at the mean and
\* typed dip, another above it and typed spike
C4_Witness ==
    /\ Returned("detect_anomalies")
    /\ Len(daily_stats) >= 5
    /\ result.has_anomalies
    /\ Len(result.anomalies) < Len(daily_stats)
    /\ \E k \in 1..Len(result.anomalies) :
        /\ result.anomalies[k].visits * Len(daily_stats) = TotalVisits
        /\ result.anomalies[k].type = "dip"
    /\ \E k \in 1..Len(result.anomalies) : result.anomalies[k].type = "spike"

\* fractions in lowest terms
FracNorm(x) ==
    LET g == Gcd(IF x.num < 0 THEN -x.num ELSE x.num, x.den)
    IN  [num |-> x.num \div g, den |-> x.den \div g]
FracAdd(a, b) ==
    FracNorm([num |-> a.num * b.den + b.num * a.den, den |-> a.den * b.den])

RECURSIVE FracSum(_)
FracSum(s) ==
    IF s = <<>> THEN [num |-> 0, den |-> 1] ELSE FracAdd(Head(s), FracSum(Tail(s)))

\* requests per second of session i, zero-length sessions counted as 1 second
SessionRate(i) ==
    FracNorm([num |-> visitor_activity[i].request_count,
              den |-> Duration(visitor_activity[i])])

\* more than twice the mean request_count of all sessions
VolumeAboveTwiceMean(i) ==
    visitor_activity[i].request_count * Len(visitor_activity)
        > 2 * SumSeq([j \in 1..Len(visitor_activity) |->
                         visitor_activity[j].request_count])

\* more than twice the mean request_rate of all sessions
RateAboveTwiceMean(i) ==
    LET total == FracSum([j \in 1..Len(visitor_activity) |-> SessionRate(j)])
    IN  SessionRate(i).num * Len(visitor_activity) * total.den
            > 2 * total.num * SessionRate(i).den

AgentAboveThreshold(i) ==
    /\ ~visitor_activity[i].ua_score.null
    /\ visitor_activity[i].ua_score.tenths > 8

CodeRank(code) ==
    CASE code = "High Request Volume" -> 1
      [] code = "Abnormal Request Rate" -> 2
      [] code = "Suspicious User Agent" -> 3
      [] code = "Unusual Pattern" -> 4
      [] OTHER -> 0

\* reason, the joined string of session i, says exactly what holds of i
ReasonMatches(reason, i) ==
    LET codes == [k \in 1..((Len(reason) + 1) \div 2) |-> reason[2 * k - 1]]
        said == {codes[k] : k \in 1..Len(codes)}
    IN  /\ reason # <<>>
        /\ Len(reason) % 2 = 1
        /\ \A k \in 1..(Len(reason) \div 2) : reason[2 * k] = ", "
        /\ \A k \in 1..Len(codes) : CodeRank(codes[k]) > 0
        /\ \A k \in 1..(Len(codes) - 1) : CodeRank(codes[k]) < CodeRank(codes[k + 1])
        /\ "High Request Volume" \in said <=> VolumeAboveTwiceMean(i)
        /\ "Abnormal Request Rate" \in said <=> RateAboveTwiceMean(i)
        /\ "Suspicious User Agent" \in said <=> AgentAboveThreshold(i)
        /\ "Unusual Pattern" \in said <=>
              ~(VolumeAboveTwiceMean(i) \/ RateAboveTwiceMean(i)
                    \/ AgentAboveThreshold(i))
        /\ "Unusual Pattern" \in said => reason = <<"Unusual Pattern">>

C5_WitnessUnusual ==
    /\ Returned("detect_bots")
    /\ "bots" \in DOMAIN result
    /\ \E k \in 1..Len(result.bots) :
        /\ result.bots[k].reason = <<"Unusual Pattern">>
        /\ \E i \in 1..Len(visitor_activity) :
            /\ visitor_activity[i].ip_hash = result.bots[k].ip_hash
            /\ visitor_activity[i].ua_score.null

RECURSIVE VisitsBetween(_, _)
VisitsBetween(lo, hi) ==
    IF lo > hi THEN 0 ELSE Visits(lo) + VisitsBetween(lo + 1, hi)

CurrentWeek == VisitsBetween(Len(daily_stats) - 6, Len(daily_stats))
PreviousWeek == VisitsBetween(Len(daily_stats) - 13, Len(daily_stats) - 7)

\* the parts of C6 that do not depend on how the rate is rounded
WeeklyGrowthSums ==
    LET wg == result.weekly_growth
    IN  IF Len(daily_stats) < 14
        THEN wg = [current_week_visits |-> 0, previous_week_visits |-> 0,
                   growth_rate_percent |-> 0]
        ELSE /\ wg.current_week_visits = CurrentWeek
             /\ wg.previous_week_visits = PreviousWeek
             /\ PreviousWeek = 0 => wg.growth_rate_percent = 0

(* C6 as stated: with fewer than 14 rows the three weekly-growth fields    *)
(* are zero; with 14 or more the sums are those of the last 7 rows and of  *)
(* the 7 before them, and growth_rate_percent is exactly                   *)
(* (current - previous) / previous * 100 when previous > 0, 0.0 when       *)
(* previous is 0.                                                          *)
C6_WeeklyGrowthExact ==
    Returned("generate_summary") /\ daily_stats # <<>>
        => /\ WeeklyGrowthSums
           /\ Len(daily_stats) >= 14 /\ PreviousWeek > 0
                => result.weekly_growth.growth_rate_percent * PreviousWeek
                       = 1000 * (CurrentWeek - PreviousWeek)

(* C6 as amended: the same, with growth_rate_percent the value of          *)
(* (current - previous) / previous * 100 rounded to one decimal.           *)
C6_WeeklyGrowthRounded ==
    Returned("generate_summary") /\ daily_stats # <<>>
        => /\ WeeklyGrowthSums
           /\ Len(daily_stats) >= 14 /\ PreviousWeek > 0
                => IsNearest(result.weekly_growth.growth_rate_percent,
                             [num |-> 100 * (CurrentWeek - PreviousWeek),
                              den |-> PreviousWeek], 10)

\* 15 rows, no visits in the previous week and some in the current one:
\* the rate is reported as 0.0
C6_Witness ==
    /\ Returned("generate_summary")
    /\ Len(daily_stats) = 15
    /\ PreviousWeek = 0
    /\ CurrentWeek > 0
    /\ result.weekly_growth.current_week_visits = CurrentWeek
    /\ result.weekly_growth.growth_rate_percent = 0

(* C7: for at least 3 rows and a horizon of days >= 1, generate_forecast   *)
(* returns exactly days points, the i-th dated i calendar days after the   *)
(* last row's date, and every predicted_visits is the value of the fitted  *)
(* least-squares line at that day, clamped to at least 0 and cut to an     *)
(* integer, so never negative, also when the slope is negative.            *)
C7_ForecastPoints ==
    Returned("generate_forecast") /\ Len(daily_stats) >= 3
        => /\ result.can_forecast
           /\ Len(result.forecast) = call.days
           /\ \A i \in 1..call.days :
                /\ result.forecast[i].date = DaysAfter(LastDate, i)
                /\ result.forecast[i].predicted_visits >= 0
                /\ IsClampedFloor(result.forecast[i].predicted_visits,
                                  OlsLine(LastOffset + i))

\* a falling line that is below zero at a forecast day in March, after a
\* last row in February: the point is clamped to 0
C7_Witness ==
    /\ Returned("generate_forecast")
    /\ Len(daily_stats) >= 3
    /\ OlsSlope.num < 0
    /\ LastDate[2] = 2
    /\ \E i \in 1..call.days :
        /\ OlsLine(LastOffset + i).num < 0
        /\ result.forecast[i].date[2] = 3
        /\ result.forecast[i].predicted_visits = 0

\* the rows of daily_stats lie on one line visits = a + b * day, whose slope
\* b is that between the first two rows
OnALine ==
    /\ Len(daily_stats) >= 3
    /\ \A i \in 1..Len(daily_stats) :
        (Visits(i) - Visits(1)) * DayOffset(2)
            = (Visits(2) - Visits(1)) * DayOffset(i)

LineSlope == [num |-> Visits(2) - Visits(1), den |-> DayOffset(2)]

\* a + b * day at day offset t
LineAt(t) ==
    [num |-> Visits(1) * DayOffset(2) + (Visits(2) - Visits(1)) * t,
     den |-> DayOffset(2)]

LabelOfReported(h) ==
    IF h > 50 THEN "increasing" ELSE IF h < -50 THEN "decreasing" ELSE "stable"

\* the label is decided by the fitted slope alone
LabelFollowsFittedSlope ==
    /\ result.trend \in {"increasing", "decreasing", "stable"}
    /\ result.trend = "increasing" <=> 2 * OlsSlope.num > OlsSlope.den
    /\ result.trend = "decreasing" <=> 2 * OlsSlope.num < -OlsSlope.den
    /\ IsNearest(result.slope, OlsSlope, 100)

(* C9 as stated: the label is increasing iff the fitted slope is above     *)
(* 0.5, decreasing iff below -0.5, stable otherwise, and it is the label   *)
(* the same rule gives the slope reported in the result.                   *)
C9_TrendMatchesReportedSlope ==
    Returned("generate_forecast") /\ Len(daily_stats) >= 3
        => /\ LabelFollowsFittedSlope
           /\ result.trend = LabelOfReported(result.slope)

(* C9 as amended: the label is increasing iff the fitted slope is above    *)
(* 0.5, decreasing iff below -0.5, stable otherwise; the slope reported is *)
(* the fitted one rounded to 2 decimals, and it agrees with the label      *)
(* whenever it is not exactly 0.5 or -0.5: reported above 0.5 only with    *)
(* increasing, below -0.5 only with decreasing, strictly between only with *)
(* stable.                                                                 *)
C9_TrendFollowsFittedSlope ==
    Returned("generate_forecast") /\ Len(daily_stats) >= 3
        => /\ LabelFollowsFittedSlope
           /\ result.slope > 50 => result.trend = "increasing"
           /\ result.slope < -50 => result.trend = "decreasing"
           /\ result.slope > -50 /\ result.slope < 50 => result.trend = "stable"

\* a fitted slope of exactly 0.5, labelled stable
C9_Witness ==
    /\ Returned("generate_forecast")
    /\ Len(daily_stats) >= 3
    /\ 2 * OlsSlope.num = OlsSlope.den
    /\ result.trend = "stable"
    /\ result.slope = 50

(* C10: whatever calls ran before, a call of detect_anomalies or of        *)
(* detect_bots returns, for the rows an earlier call of the same operation *)
(* was given, the result that call returned: the same flagged rows in the  *)
(* same order, with the same types and reasons.                            *)
C10_Reproducible ==
    \A op \in ForestOps :
        Returned(op)
            => \A h \in seen[op] : h.input = df => h.result = result

\* detect_anomalies has returned a second time on the same rows, with rows
\* flagged, and detect_bots has run as well
C10_Witness ==
    /\ Returned("detect_anomalies")
    /\ "anomalies" \in DOMAIN result
    /\ result.has_anomalies
    /\ \E h \in seen["detect_anomalies"] : h.again /\ h.input = df
    /\ seen["detect_bots"] # {}

=============================================================================
